---------------------------- MODULE Spec2Model ----------------------------
(***************************************************************************)
(* LAGraph_bc_batch (Source/Algorithm/LAGraph_bc_batch.c): batched Brandes *)
(* betweenness centrality over GraphBLAS.  The function is modelled call   *)
(* by call: the program counter pc names the source line of the next       *)
(* GraphBLAS call or allocation.  Sparse matrices are functions whose      *)
(* domain is the set of stored positions <<row, column>>; FP64 values are  *)
(* exact rationals <<numerator, denominator>> in lowest terms.             *)
(***************************************************************************)
EXTENDS Integers, Sequences, FiniteSets, TLC

\* Bounds of the model.
MaxN == 4          \* graphs have 1..MaxN nodes
MaxEdges == 4      \* at most MaxEdges stored entries in A_matrix
MaxSources == 2    \* explicit source lists have 0..MaxSources entries

VARIABLES
    \* ---- arguments of the call -----------------------------------------
    n,            \* GrB_Matrix_nrows of A_matrix
    A,            \* stored entries <<i, j>> of A_matrix (edge i -> j), value 1
    A_null,       \* A_matrix == NULL
    cent_null,    \* centrality == NULL
    src_all,      \* sources == GrB_ALL
    sources,      \* the explicit source list (a sequence), <<>> under GrB_ALL
    num_sources,
    \* ---- locals --------------------------------------------------------
    pc, info, depth, sum, bi,
    paths, frontier, S_array, inv_paths, bc_update, temp, centrality,
    \* ---- heap ----------------------------------------------------------
    live,         \* named objects currently allocated
    liveS,        \* indices d with S_array[d] currently allocated
    assigned,     \* local handle variables that have been given a value
    \* ---- history -------------------------------------------------------
    algebra,      \* a GraphBLAS operation on matrix content has been called
    everAlloc     \* something has been allocated by this call

vars == << n, A, A_null, cent_null, src_all, sources, num_sources,
           pc, info, depth, sum, bi,
           paths, frontier, S_array, inv_paths, bc_update, temp, centrality,
           live, liveS, assigned, algebra, everAlloc >>

inputs == << n, A, A_null, cent_null, src_all, sources, num_sources >>

Nodes == 0 .. (n - 1)
Cols == 0 .. (num_sources - 1)
AllPos == Nodes \X Cols

Max(a, b) == IF a >= b THEN a ELSE b

-----------------------------------------------------------------------------
\* FP64 values, kept exact: <<p, q>> with q > 0 and gcd(|p|, q) = 1.

Abs(x) == IF x < 0 THEN -x ELSE x

RECURSIVE GCD(_, _)
GCD(a, b) == IF b = 0 THEN a ELSE GCD(b, a % b)

Norm(p, q) ==
    LET g == GCD(Abs(p), q) IN << p \div g, q \div g >>

RInt(i) == << i, 1 >>
RAdd(x, y) == Norm(x[1] * y[2] + y[1] * x[2], x[2] * y[2])
RMul(x, y) == Norm(x[1] * y[1], x[2] * y[2])
\* GrB_MINV_FP64 on a positive count c: 1/c
RInv(c) == << 1, c >>

\* sum of f[i] over i in lo..hi (FP64 PLUS monoid), absent terms skipped
RECURSIVE RSum(_, _, _)
RSum(f, lo, hi) ==
    IF lo > hi THEN RInt(0)
    ELSE RAdd(IF lo \in DOMAIN f THEN f[lo] ELSE RInt(0), RSum(f, lo + 1, hi))

RECURSIVE ISum(_, _, _)
ISum(f, lo, hi) ==
    IF lo > hi THEN 0
    ELSE (IF lo \in DOMAIN f THEN f[lo] ELSE 0) + ISum(f, lo + 1, hi)

-----------------------------------------------------------------------------
\* The GraphBLAS calls of LAGraph_bc_batch, each with the operators, mask and
\* descriptor the call site passes.

\* A mask selects the positions whose stored value casts to true.
MaskInt(M) == { p \in DOMAIN M : M[p] # 0 }
MaskBool(M) == { p \in DOMAIN M : M[p] }

\* column k of the source list: sources[k], or k under GrB_ALL
Src(k) == IF src_all THEN k ELSE sources[k + 1]
SrcOf(srcs, all, k) == IF all THEN k ELSE srcs[k + 1]

\* GrB_Matrix_build (paths, sources, i_nsver, ones, num_sources, PLUS):
\* paths[sources[k], k] = 1
BuildPaths(srcs, all, ns) ==
    [ p \in { << SrcOf(srcs, all, k), k >> : k \in 0 .. (ns - 1) } |-> 1 ]

\* (mutant) the column list is ignored: column k of A' is taken for column k
ExtractFrontier_byColumn(adj, nn, srcs, all, ns, P) ==
    LET T == { << i, k >> \in (0 .. (nn - 1)) \X (0 .. (ns - 1)) : << k, i >> \in adj }
    IN  [ p \in T \ { q \in DOMAIN P : P[q] # 0 } |-> 1 ]

\* (mutant) the mask is not applied
ExtractFrontier_unmasked(adj, nn, srcs, all, ns, P) ==
    LET T == { << i, k >> \in (0 .. (nn - 1)) \X (0 .. (ns - 1)) :
                   << (IF all THEN k ELSE srcs[k + 1]), i >> \in adj }
    IN  [ p \in T |-> 1 ]

\* GrB_extract (frontier, paths, NULL, A, GrB_ALL, n, sources, ns, desc_tsr):
\* frontier<!paths, replace> = A'(:, sources)
ExtractFrontier(adj, nn, srcs, all, ns, P) ==
    LET T == { << i, k >> \in (0 .. (nn - 1)) \X (0 .. (ns - 1)) :
                   << SrcOf(srcs, all, k), i >> \in adj }
    IN  [ p \in T \ MaskInt(P) |-> 1 ]

\* GrB_apply (S_array[depth], NULL, NULL, GrB_IDENTITY_BOOL, frontier, NULL)
ApplyIdentityBool(F) == [ p \in DOMAIN F |-> F[p] # 0 ]

\* (mutant) eWiseMult in place of eWiseAdd: the intersection, not the union
EWiseAddPaths_intersect(P, F) ==
    [ p \in DOMAIN P \cap DOMAIN F |-> P[p] + F[p] ]

\* GrB_eWiseAdd (paths, NULL, NULL, PLUS_TIMES_INT64, paths, frontier, NULL)
EWiseAddPaths(P, F) ==
    [ p \in DOMAIN P \cup DOMAIN F |->
        IF p \in DOMAIN P /\ p \in DOMAIN F THEN P[p] + F[p]
        ELSE IF p \in DOMAIN P THEN P[p] ELSE F[p] ]

\* (mutant) the complemented mask is not applied
MxmForward_unmasked(adj, nn, ns, P, F) ==
    LET T == { << i, k >> \in (0 .. (nn - 1)) \X (0 .. (ns - 1)) :
                   \E j \in 0 .. (nn - 1) : << j, i >> \in adj /\ << j, k >> \in DOMAIN F }
        col(i, k) == [ j \in { j \in 0 .. (nn - 1) :
                                   << j, i >> \in adj /\ << j, k >> \in DOMAIN F }
                         |-> F[<< j, k >>] ]
    IN  [ p \in T |-> ISum(col(p[1], p[2]), 0, nn - 1) ]

\* GrB_mxm (frontier, paths, NULL, PLUS_TIMES_INT64, A, frontier, desc_tsr):
\* frontier<!paths, replace> = A' +.* frontier
MxmForward(adj, nn, ns, P, F) ==
    LET T == { << i, k >> \in (0 .. (nn - 1)) \X (0 .. (ns - 1)) :
                   \E j \in 0 .. (nn - 1) : << j, i >> \in adj /\ << j, k >> \in DOMAIN F }
        col(i, k) == [ j \in { j \in 0 .. (nn - 1) :
                                   << j, i >> \in adj /\ << j, k >> \in DOMAIN F }
                         |-> F[<< j, k >>] ]
    IN  [ p \in T \ MaskInt(P) |-> ISum(col(p[1], p[2]), 0, nn - 1) ]

\* GrB_Matrix_nvals (&sum, frontier)
Nvals(F) == Cardinality(DOMAIN F)

\* GrB_apply (inv_paths, NULL, NULL, GrB_MINV_FP64, paths, NULL)
ApplyMinv(P) == [ p \in DOMAIN P |-> RInv(P[p]) ]

\* GrB_assign (bc_update, NULL, NULL, 1.0f, GrB_ALL, n, GrB_ALL, ns, NULL)
AssignOnes(nn, ns) == [ p \in (0 .. (nn - 1)) \X (0 .. (ns - 1)) |-> RInt(1) ]

\* GrB_eWiseMult (temp, S_array[i], NULL, PLUS_TIMES_FP64, bc_update,
\*                inv_paths, replace):  temp<S_array[i]> = bc_update .* inv_paths
EWiseMultShare(Si, B, IP) ==
    [ p \in (DOMAIN B \cap DOMAIN IP) \cap MaskBool(Si) |-> RMul(B[p], IP[p]) ]

\* (mutant) the mask S_array[i-1] is not applied
MxmBackward_unmasked(adj, nn, ns, Sp, T) ==
    LET D == { << v, k >> \in (0 .. (nn - 1)) \X (0 .. (ns - 1)) :
                   \E w \in 0 .. (nn - 1) : << v, w >> \in adj /\ << w, k >> \in DOMAIN T }
        row(v, k) == [ w \in { w \in 0 .. (nn - 1) :
                                   << v, w >> \in adj /\ << w, k >> \in DOMAIN T }
                         |-> T[<< w, k >>] ]
    IN  [ p \in D |-> RSum(row(p[1], p[2]), 0, nn - 1) ]

\* GrB_mxm (temp, S_array[i-1], NULL, PLUS_TIMES_FP64, A, temp, replace):
\* temp<S_array[i-1]> = A +.* temp
MxmBackward(adj, nn, ns, Sp, T) ==
    LET D == { << v, k >> \in (0 .. (nn - 1)) \X (0 .. (ns - 1)) :
                   \E w \in 0 .. (nn - 1) : << v, w >> \in adj /\ << w, k >> \in DOMAIN T }
        row(v, k) == [ w \in { w \in 0 .. (nn - 1) :
                                   << v, w >> \in adj /\ << w, k >> \in DOMAIN T }
                         |-> T[<< w, k >>] ]
    IN  [ p \in D \cap MaskBool(Sp) |-> RSum(row(p[1], p[2]), 0, nn - 1) ]

\* GrB_eWiseMult (bc_update, NULL, GrB_PLUS_FP64, TIMES_FP64, temp, paths, NULL):
\* bc_update += temp .* paths
EWiseMultAccum(B, T, P) ==
    LET X == [ p \in DOMAIN T \cap DOMAIN P |-> RMul(T[p], RInt(P[p])) ]
    IN  [ p \in DOMAIN B \cup DOMAIN X |->
            IF p \in DOMAIN B /\ p \in DOMAIN X THEN RAdd(B[p], X[p])
            ELSE IF p \in DOMAIN B THEN B[p] ELSE X[p] ]

\* GrB_assign (*centrality, NULL, NULL, -(float) num_sources, GrB_ALL, n, NULL)
AssignOffset(nn, ns) == [ i \in 0 .. (nn - 1) |-> RInt(-ns) ]

\* GrB_reduce (*centrality, NULL, GrB_PLUS_FP64, GrB_PLUS_FP64, bc_update, NULL):
\* centrality += row sums of bc_update (rows without entries add nothing)
ReduceRows(C, B, ns) ==
    LET rowf(i) == [ k \in { k \in 0 .. (ns - 1) : << i, k >> \in DOMAIN B }
                       |-> B[<< i, k >>] ]
        R == { i \in DOMAIN C : \E k \in 0 .. (ns - 1) : << i, k >> \in DOMAIN B }
    IN  [ i \in DOMAIN C |->
            IF i \in R THEN RAdd(C[i], RSum(rowf(i), 0, ns - 1)) ELSE C[i] ]

-----------------------------------------------------------------------------
\* LAGRAPH_FREE_ALL

\* the handles the macro passes to GrB_free and free
FreeAllHandles ==
    { "frontier", "paths", "inv_paths", "bc_update", "desc_tsr", "replace",
      "temp", "S_array" }

\* (mutant) the loop stops one short
FreeAllDepths_short(d) == 0 .. (d - 2)

\* for (int i = 0; i < depth; i++) GrB_free (&(S_array[i]))
FreeAllDepths(d) == 0 .. (d - 1)

\* LAGRAPH_OK (method) on a failing method: info = method; LAGRAPH_FREE_ALL;
\* return (info).  Freeing a handle that was never given a value is undefined:
\* the build either passes over it or faults.
LAGRAPH_OK_fails(status) ==
    /\ info' = status
    /\ \/ /\ pc' = "returned"
          /\ live' = live \ FreeAllHandles
          /\ liveS' = liveS \ FreeAllDepths(depth)
       \/ /\ ~(FreeAllHandles \subseteq assigned)
          /\ pc' = "crashed"
          /\ UNCHANGED << live, liveS >>
    /\ UNCHANGED assigned

-----------------------------------------------------------------------------
Empty == [ p \in {} |-> 0 ]

\* subsets of S with at most k elements
RECURSIVE SubsetsUpTo(_, _)
SubsetsUpTo(S, k) ==
    IF k = 0 THEN { {} }
    ELSE LET R == SubsetsUpTo(S, k - 1)
         IN  R \cup { T \cup { x } : T \in R, x \in S }

\* The arguments of one call: a graph of 1..MaxN nodes, a source list that
\* may be empty, repeat a node or name the out-of-range id n, or GrB_ALL with
\* num_sources = n; either handle may be NULL.
Init ==
    /\ n \in 1 .. MaxN
    /\ A \in SubsetsUpTo((0 .. (n - 1)) \X (0 .. (n - 1)), MaxEdges)
    /\ A_null \in BOOLEAN
    /\ cent_null \in BOOLEAN
    /\ A_null => (A = {} /\ n = 1 /\ ~cent_null)
    /\ src_all \in BOOLEAN
    /\ sources \in IF src_all THEN { << >> }
                   ELSE UNION { [ 1 .. m -> 0 .. n ] : m \in 0 .. MaxSources }
    /\ num_sources = IF src_all THEN n ELSE Len(sources)
    /\ (A_null \/ cent_null) => sources = << >>
    /\ pc = "L127"
    /\ info = "none"
    /\ depth = 0
    /\ sum = 0
    /\ bi = 0
    /\ paths = Empty /\ frontier = Empty /\ S_array = << >>
    /\ inv_paths = Empty /\ bc_update = Empty /\ temp = Empty
    /\ centrality = Empty
    /\ live = {} /\ liveS = {} /\ assigned = {}
    /\ algebra = FALSE /\ everAlloc = FALSE

SourcesInRange == \A k \in Cols : Src(k) \in Nodes

mats == << paths, frontier, S_array, inv_paths, bc_update, temp, centrality >>
heap == << live, liveS, assigned >>
hist == << algebra, everAlloc >>
loc == << info, depth, sum, bi >>

\* a successful GrB_*_new or malloc of the named local
New(h) ==
    /\ live' = live \cup { h }
    /\ assigned' = assigned \cup { h }
    /\ everAlloc' = TRUE
    /\ UNCHANGED << liveS, algebra >>

-----------------------------------------------------------------------------
\* The successful steps, named by source line.

L127_Matrix_nrows ==
    /\ pc = "L127" /\ ~A_null
    /\ pc' = "L130"
    /\ UNCHANGED << inputs, loc, mats, heap, hist >>

L130_Vector_new ==
    /\ pc = "L130" /\ ~cent_null
    /\ pc' = "L136"
    /\ centrality' = Empty
    /\ live' = live \cup { "centrality" }
    /\ everAlloc' = TRUE
    /\ UNCHANGED << inputs, loc, paths, frontier, S_array, inv_paths, bc_update,
                    temp, liveS, assigned, algebra >>

L136_Descriptor_new ==
    /\ pc = "L136"
    /\ pc' = "L137"
    /\ New("desc_tsr")
    /\ UNCHANGED << inputs, loc, mats >>

L137_Descriptor_set ==
    /\ pc = "L137"
    /\ pc' = "L143"
    /\ UNCHANGED << inputs, loc, mats, heap, hist >>

L143_malloc_workspace ==
    /\ pc = "L143"
    /\ pc' = "L151"
    /\ live' = live \cup { "i_nsver", "ones" }
    /\ everAlloc' = TRUE
    /\ UNCHANGED << inputs, loc, mats, liveS, assigned, algebra >>

L151_Matrix_new_paths ==
    /\ pc = "L151"
    /\ pc' = "L154"
    /\ paths' = Empty
    /\ New("paths")
    /\ UNCHANGED << inputs, loc, frontier, S_array, inv_paths, bc_update, temp,
                    centrality >>

L154_sources_is_ALL ==
    /\ pc = "L154"
    /\ IF src_all
       THEN /\ pc' = "L163"
            /\ live' = live \cup { "s_all" }
       ELSE /\ pc' = "L170"
            /\ UNCHANGED live
    /\ UNCHANGED << inputs, loc, mats, liveS, assigned, hist >>

L163_Matrix_build_all ==
    /\ pc = "L163"
    /\ pc' = "L173"
    /\ paths' = BuildPaths(sources, src_all, num_sources)
    /\ live' = live \ { "s_all" }
    /\ algebra' = TRUE
    /\ UNCHANGED << inputs, loc, frontier, S_array, inv_paths, bc_update, temp,
                    centrality, liveS, assigned, everAlloc >>

L170_Matrix_build ==
    /\ pc = "L170" /\ SourcesInRange
    /\ pc' = "L173"
    /\ paths' = BuildPaths(sources, src_all, num_sources)
    /\ algebra' = TRUE
    /\ UNCHANGED << inputs, loc, frontier, S_array, inv_paths, bc_update, temp,
                    centrality, heap, everAlloc >>

L173_free_workspace ==
    /\ pc = "L173"
    /\ pc' = "L178"
    /\ live' = live \ { "i_nsver", "ones" }
    /\ UNCHANGED << inputs, loc, mats, liveS, assigned, hist >>

L178_Matrix_new_frontier ==
    /\ pc = "L178"
    /\ pc' = "L179"
    /\ frontier' = Empty
    /\ New("frontier")
    /\ UNCHANGED << inputs, loc, paths, S_array, inv_paths, bc_update, temp,
                    centrality >>

L179_extract ==
    /\ pc = "L179"
    /\ pc' = "L182"
    /\ frontier' = ExtractFrontier(A, n, sources, src_all, num_sources, paths)
    /\ algebra' = TRUE
    /\ UNCHANGED << inputs, loc, paths, S_array, inv_paths, bc_update, temp,
                    centrality, heap, everAlloc >>

L182_malloc_S_array ==
    /\ pc = "L182"
    /\ pc' = "L191"
    /\ New("S_array")
    /\ UNCHANGED << inputs, loc, mats >>

\* ---- breadth-first search stage: do { ... } while (sum) -------------------

\* S_array has n slots; a write past them is not modelled
L191_Matrix_new_S ==
    /\ pc = "L191" /\ depth < n
    /\ pc' = "L194"
    /\ S_array' = Append(S_array, Empty)
    /\ liveS' = liveS \cup { depth }
    /\ UNCHANGED << inputs, loc, paths, frontier, inv_paths, bc_update, temp,
                    centrality, live, assigned, hist >>

L194_apply_identity ==
    /\ pc = "L194"
    /\ pc' = "L197"
    /\ S_array' = [ S_array EXCEPT ![depth + 1] = ApplyIdentityBool(frontier) ]
    /\ UNCHANGED << inputs, loc, paths, frontier, inv_paths, bc_update, temp,
                    centrality, heap, hist >>

L197_eWiseAdd ==
    /\ pc = "L197"
    /\ pc' = "L200"
    /\ paths' = EWiseAddPaths(paths, frontier)
    /\ UNCHANGED << inputs, loc, frontier, S_array, inv_paths, bc_update, temp,
                    centrality, heap, hist >>

L200_mxm ==
    /\ pc = "L200"
    /\ pc' = "L203"
    /\ frontier' = MxmForward(A, n, num_sources, paths, frontier)
    /\ UNCHANGED << inputs, loc, paths, S_array, inv_paths, bc_update, temp,
                    centrality, heap, hist >>

\* (mutant) the loop stops while one entry is still on the frontier
WhileSum_gt1(s) == s > 1

\* sum = nvals (frontier); depth = depth + 1; while (sum)
WhileSum(s) == s # 0

L203_Matrix_nvals ==
    /\ pc = "L203"
    /\ sum' = Nvals(frontier)
    /\ depth' = depth + 1
    /\ pc' = IF WhileSum(sum') THEN "L191" ELSE "L212"
    /\ UNCHANGED << inputs, info, bi, mats, heap, hist >>

\* ---- betweenness centrality computation phase ----------------------------

L212_Matrix_new_inv_paths ==
    /\ pc = "L212"
    /\ pc' = "L213"
    /\ inv_paths' = Empty
    /\ New("inv_paths")
    /\ UNCHANGED << inputs, loc, paths, frontier, S_array, bc_update, temp,
                    centrality >>

L213_apply_minv ==
    /\ pc = "L213"
    /\ pc' = "L217"
    /\ inv_paths' = ApplyMinv(paths)
    /\ UNCHANGED << inputs, loc, paths, frontier, S_array, bc_update, temp,
                    centrality, heap, hist >>

L217_Matrix_new_bc_update ==
    /\ pc = "L217"
    /\ pc' = "L218"
    /\ bc_update' = Empty
    /\ New("bc_update")
    /\ UNCHANGED << inputs, loc, paths, frontier, S_array, inv_paths, temp,
                    centrality >>

L218_assign_ones ==
    /\ pc = "L218"
    /\ pc' = "L222"
    /\ bc_update' = AssignOnes(n, num_sources)
    /\ UNCHANGED << inputs, loc, paths, frontier, S_array, inv_paths, temp,
                    centrality, heap, hist >>

L222_Descriptor_new_replace ==
    /\ pc = "L222"
    /\ pc' = "L223"
    /\ New("replace")
    /\ UNCHANGED << inputs, loc, mats >>

L223_Descriptor_set_replace ==
    /\ pc = "L223"
    /\ pc' = "L226"
    /\ UNCHANGED << inputs, loc, mats, heap, hist >>

\* (mutant) the backward loop stops one level early
BackwardTest_from2(i) == i > 1

\* for (int i = depth - 1; i > 0; i--)
BackwardFirst(d) == d - 1
BackwardTest(i) == i > 0

L226_Matrix_new_temp ==
    /\ pc = "L226"
    /\ temp' = Empty
    /\ New("temp")
    /\ bi' = BackwardFirst(depth)
    /\ pc' = IF BackwardTest(bi') THEN "L234" ELSE "L245"
    /\ UNCHANGED << inputs, info, depth, sum, paths, frontier, S_array,
                    inv_paths, bc_update, centrality >>

L234_eWiseMult ==
    /\ pc = "L234"
    /\ pc' = "L237"
    /\ temp' = EWiseMultShare(S_array[bi + 1], bc_update, inv_paths)
    /\ UNCHANGED << inputs, loc, paths, frontier, S_array, inv_paths, bc_update,
                    centrality, heap, hist >>

L237_mxm ==
    /\ pc = "L237"
    /\ pc' = "L240"
    /\ temp' = MxmBackward(A, n, num_sources, S_array[bi], temp)
    /\ UNCHANGED << inputs, loc, paths, frontier, S_array, inv_paths, bc_update,
                    centrality, heap, hist >>

L240_eWiseMult_accum ==
    /\ pc = "L240"
    /\ bc_update' = EWiseMultAccum(bc_update, temp, paths)
    /\ bi' = bi - 1
    /\ pc' = IF BackwardTest(bi') THEN "L234" ELSE "L245"
    /\ UNCHANGED << inputs, info, depth, sum, paths, frontier, S_array,
                    inv_paths, temp, centrality, heap, hist >>

L245_assign_offset ==
    /\ pc = "L245"
    /\ pc' = "L248"
    /\ centrality' = AssignOffset(n, num_sources)
    /\ UNCHANGED << inputs, loc, paths, frontier, S_array, inv_paths, bc_update,
                    temp, heap, hist >>

L248_reduce ==
    /\ pc = "L248"
    /\ pc' = "L250"
    /\ centrality' = ReduceRows(centrality, bc_update, num_sources)
    /\ UNCHANGED << inputs, loc, paths, frontier, S_array, inv_paths, bc_update,
                    temp, heap, hist >>

\* LAGRAPH_FREE_ALL; return GrB_SUCCESS (every handle has a value here)
L250_free_all_return ==
    /\ pc = "L250"
    /\ pc' = "returned"
    /\ info' = "GrB_SUCCESS"
    /\ live' = live \ FreeAllHandles
    /\ liveS' = liveS \ FreeAllDepths(depth)
    /\ UNCHANGED << inputs, depth, sum, bi, mats, assigned, hist >>

-----------------------------------------------------------------------------
\* Failing steps.

\* the lines that hold a GraphBLAS call under LAGRAPH_OK
CallSites ==
    { "L127", "L130", "L136", "L137", "L151", "L163", "L170", "L178", "L179",
      "L191", "L194", "L197", "L200", "L203", "L212", "L213", "L217", "L218",
      "L222", "L223", "L226", "L234", "L237", "L240", "L245", "L248" }

\* those that operate on the content of a matrix or vector
AlgebraSites ==
    { "L163", "L170", "L179", "L194", "L197", "L200", "L213", "L218", "L234",
      "L237", "L240", "L245", "L248" }

\* what the library answers for an argument it rejects at the call of line pc
Rejected ==
    IF pc = "L127" /\ A_null THEN { "GrB_NULL_POINTER" }
    ELSE IF pc = "L130" /\ cent_null THEN { "GrB_NULL_POINTER" }
    ELSE IF pc = "L170" /\ ~SourcesInRange THEN { "GrB_INDEX_OUT_OF_BOUNDS" }
    ELSE {}

ArgumentRejected ==
    /\ pc \in CallSites
    /\ \E status \in Rejected : LAGRAPH_OK_fails(status)
    /\ algebra' = (algebra \/ pc \in AlgebraSites)
    /\ UNCHANGED << inputs, depth, sum, bi, mats, everAlloc >>

\* any call may run out of memory
OutOfMemory ==
    /\ pc \in CallSites
    /\ Rejected = {}
    /\ LAGRAPH_OK_fails("GrB_OUT_OF_MEMORY")
    /\ algebra' = (algebra \/ pc \in AlgebraSites)
    /\ UNCHANGED << inputs, depth, sum, bi, mats, everAlloc >>

\* malloc returns NULL and is not tested: the writes that follow (lines 147,
\* 160, 191) go through a null pointer
MallocFails ==
    /\ \/ pc = "L143" /\ num_sources > 0
       \/ pc = "L154" /\ src_all
       \/ pc = "L182"
    /\ pc' = "crashed"
    /\ UNCHANGED << inputs, loc, mats, heap, hist >>

Next ==
    \/ L127_Matrix_nrows \/ L130_Vector_new \/ L136_Descriptor_new
    \/ L137_Descriptor_set \/ L143_malloc_workspace \/ L151_Matrix_new_paths
    \/ L154_sources_is_ALL \/ L163_Matrix_build_all \/ L170_Matrix_build
    \/ L173_free_workspace \/ L178_Matrix_new_frontier \/ L179_extract
    \/ L182_malloc_S_array \/ L191_Matrix_new_S \/ L194_apply_identity
    \/ L197_eWiseAdd \/ L200_mxm \/ L203_Matrix_nvals
    \/ L212_Matrix_new_inv_paths \/ L213_apply_minv
    \/ L217_Matrix_new_bc_update \/ L218_assign_ones
    \/ L222_Descriptor_new_replace \/ L223_Descriptor_set_replace
    \/ L226_Matrix_new_temp \/ L234_eWiseMult \/ L237_mxm
    \/ L240_eWiseMult_accum \/ L245_assign_offset \/ L248_reduce
    \/ L250_free_all_return \/ ArgumentRejected

\* every call succeeds unless the library rejects its arguments
Spec == Init /\ [][Next]_vars

NextF == Next \/ OutOfMemory \/ MallocFails

\* any single call or allocation may fail
SpecF == Init /\ [][NextF]_vars

-----------------------------------------------------------------------------
\* Reference: betweenness centrality by brute-force counting of walks.

\* number of walks of exactly len edges from s to t
RECURSIVE Walks(_, _, _)
Walks(s, t, len) ==
    IF len = 0 THEN (IF s = t THEN 1 ELSE 0)
    ELSE LET pred == [ u \in { u \in Nodes : << u, t >> \in A } |-> Walks(s, u, len - 1) ]
         IN  ISum(pred, 0, n - 1)

Reachable(s, t) == \E len \in 0 .. (n - 1) : Walks(s, t, len) > 0

\* shortest-path distance (defined when t is reachable from s)
Dist(s, t) == CHOOSE len \in 0 .. (n - 1) :
                  /\ Walks(s, t, len) > 0
                  /\ \A m \in 0 .. (len - 1) : Walks(s, t, m) = 0

\* sigma(s,t): number of shortest paths from s to t
Sigma(s, t) == Walks(s, t, Dist(s, t))

\* sigma(s,t|i): those that pass through i
SigmaThrough(s, t, i) ==
    IF Reachable(s, i) /\ Reachable(i, t) /\ Dist(s, i) + Dist(i, t) = Dist(s, t)
    THEN Sigma(s, i) * Sigma(i, t)
    ELSE 0

\* dependency of source s on node i: sum over t # i, t # s of sigma(s,t|i)/sigma(s,t)
Dependency(s, i) ==
    LET T == { t \in Nodes : t # i /\ t # s /\ Reachable(s, t) }
        term == [ t \in T |-> Norm(SigmaThrough(s, t, i), Sigma(s, t)) ]
    IN  RSum(term, 0, n - 1)

\* sum over the selected sources s # i
RefCentrality(i) ==
    LET term == [ k \in { k \in Cols : Src(k) # i } |-> Dependency(Src(k), i) ]
    IN  RSum(term, 0, num_sources - 1)

\* largest distance from a selected source to a node it reaches
Eccentricity ==
    CHOOSE d \in 0 .. (n - 1) :
        /\ \E k \in Cols, t \in Nodes : Reachable(Src(k), t) /\ Dist(Src(k), t) = d
        /\ \A k \in Cols, t \in Nodes : Reachable(Src(k), t) => Dist(Src(k), t) <= d

DistinctSources == \A j, k \in Cols : j # k => Src(j) # Src(k)

Succeeded == pc = "returned" /\ info = "GrB_SUCCESS"

\* a valid call: non-null handles, a non-empty list of distinct in-range sources
ValidInput ==
    /\ ~A_null /\ ~cent_null
    /\ num_sources >= 1
    /\ SourcesInRange
    /\ DistinctSources

-----------------------------------------------------------------------------
\* C1: after a successful call on a non-empty list of distinct in-range
\* sources, result[i] is the sum over the selected sources s # i and targets
\* t # i, t # s of sigma(s,t|i)/sigma(s,t); with sources = GrB_ALL this is the
\* exact betweenness centrality of the brute-force reference.
C1_ResultIsBrandesSum ==
    (Succeeded /\ ValidInput) =>
        /\ DOMAIN centrality = Nodes
        /\ \A i \in Nodes : centrality[i] = RefCentrality(i)

\* a successful all-sources run in which some node carries half a path
C1_Witness ==
    /\ Succeeded /\ ValidInput /\ src_all
    /\ \E i \in Nodes : centrality[i][2] = 2

\* C2: for every (node, source) pair, at most one of the depth-history
\* matrices S_array[0..] marks it true, at every point of the forward phase
\* and after it.
C2_SingleDiscovery ==
    \A p \in AllPos :
        Cardinality({ d \in 1 .. Len(S_array) :
                        p \in DOMAIN S_array[d] /\ S_array[d][p] }) <= 1

\* the forward phase has recorded three levels, and an edge leads from the
\* last level back to the first
C2_Witness ==
    /\ Len(S_array) = 3
    /\ \A d \in 1 .. 3 : \E p \in AllPos : p \in DOMAIN S_array[d] /\ S_array[d][p]
    /\ \E k \in Cols, e \in A :
           /\ << e[1], k >> \in DOMAIN S_array[3]
           /\ << e[2], k >> \in DOMAIN S_array[1]

\* C3: on every exit path everything the call created, other than the
\* result vector, has been released when it returns.
C3_AllReleasedOnReturn ==
    pc = "returned" => (live \subseteq { "centrality" } /\ liveS = {})

\* C4: a call that returns a failure status hands no result vector back.
C4_NoResultOnFailure ==
    (pc = "returned" /\ info # "GrB_SUCCESS") => "centrality" \notin live

InvalidInput == A_null \/ cent_null \/ num_sources = 0 \/ ~SourcesInRange

\* C5: on an invalid input (a null handle, an empty source list, a source id
\* outside [0, n)) the call allocates nothing, makes no call on matrix
\* content, and returns a failure status.
C5_InvalidInputFailsFast ==
    InvalidInput =>
        /\ ~algebra
        /\ ~everAlloc
        /\ pc = "returned" => info # "GrB_SUCCESS"

-----------------------------------------------------------------------------
\* The whole computation as a function of its arguments (lines 141-248).

\* do { ... } while (sum), within the n slots of S_array
RECURSIVE ForwardLoop(_, _, _, _, _, _)
ForwardLoop(adj, nn, ns, P, F, S) ==
    LET S2 == Append(S, ApplyIdentityBool(F))
        P2 == EWiseAddPaths(P, F)
        F2 == MxmForward(adj, nn, ns, P2, F)
    IN  IF WhileSum(Nvals(F2)) /\ Len(S2) < nn
        THEN ForwardLoop(adj, nn, ns, P2, F2, S2)
        ELSE << P2, S2 >>

RECURSIVE BackwardLoop(_, _, _, _, _, _, _, _)
BackwardLoop(adj, nn, ns, P, IP, S, B, i) ==
    IF BackwardTest(i)
    THEN LET T1 == EWiseMultShare(S[i + 1], B, IP)
             T2 == MxmBackward(adj, nn, ns, S[i], T1)
         IN  BackwardLoop(adj, nn, ns, P, IP, S, EWiseMultAccum(B, T2, P), i - 1)
    ELSE B

BCBatch(adj, nn, srcs, all, ns) ==
    LET P0 == BuildPaths(srcs, all, ns)
        F0 == ExtractFrontier(adj, nn, srcs, all, ns, P0)
        fw == ForwardLoop(adj, nn, ns, P0, F0, << >>)
        B  == BackwardLoop(adj, nn, ns, fw[1], ApplyMinv(fw[1]), fw[2],
                           AssignOnes(nn, ns), BackwardFirst(Len(fw[2])))
    IN  ReduceRows(AssignOffset(nn, ns), B, ns)

\* the source lists that are permutations of the list passed
Reorderings ==
    { q \in [ 1 .. num_sources -> Nodes ] :
        \A v \in Nodes : Cardinality({ k \in 1 .. num_sources : q[k] = v })
                           = Cardinality({ k \in 1 .. num_sources : sources[k] = v }) }

\* C6: the result of a successful call has one entry for each of the n nodes
\* and is the result of the call on any permutation of its source list.
C6_OrderIndependent ==
    (Succeeded /\ ValidInput /\ ~src_all) =>
        /\ DOMAIN centrality = Nodes
        /\ \A q \in Reorderings : BCBatch(A, n, q, FALSE, num_sources) = centrality

\* a successful run on two sources whose columns end up different
C6_Witness ==
    /\ Succeeded /\ ValidInput /\ ~src_all
    /\ num_sources = 2
    /\ \E i \in Nodes : bc_update[<< i, 0 >>] # bc_update[<< i, 1 >>]
    /\ \E i \in Nodes : centrality[i] # RInt(0)

-----------------------------------------------------------------------------
ForwardLines == { "L191", "L194", "L197", "L200", "L203" }

PathsKept ==
    pc \in ForwardLines =>
        \A p \in DOMAIN paths : p \in DOMAIN paths' /\ paths'[p] >= paths[p]

PathsPositive == \A p \in DOMAIN paths : paths[p] > 0

PathsCoverReachable ==
    pc = "L212" =>
        DOMAIN paths = { p \in AllPos : Reachable(Src(p[2]), p[1]) }

\* C7: across the forward loop every stored path count stays stored and never
\* decreases, every stored count is positive, and when the forward phase ends
\* entry (i, k) is stored exactly when node i is reachable from source k.
C7_PathCounts ==
    /\ [][PathsKept]_vars
    /\ [](PathsPositive /\ PathsCoverReachable)

\* the forward phase ends with a count of two and an unreachable pair
C7_Witness ==
    /\ pc = "L212"
    /\ \E p \in DOMAIN paths : paths[p] = 2
    /\ DOMAIN paths # AllPos

-----------------------------------------------------------------------------
\* no selected source has an edge to a node other than itself
InitialFrontierEmpty ==
    \A k \in Cols : \A j \in Nodes : << Src(k), j >> \in A => j = Src(k)

\* C8 as stated: with an empty initial frontier the forward phase ends with
\* depth = 0 and an empty depth-history sequence.
C8_DepthZero ==
    (pc = "L212" /\ InitialFrontierEmpty) => (depth = 0 /\ S_array = << >>)

\* C8: with an empty initial frontier the do-while body runs once: the
\* forward phase ends with depth = 1 and one depth-history matrix, which has
\* no entries.
C8_OneEmptyLevel ==
    (pc = "L212" /\ InitialFrontierEmpty) =>
        /\ depth = 1
        /\ Len(S_array) = 1
        /\ DOMAIN S_array[1] = {}

\* the forward phase has ended for a source whose only edge is a self-loop
C8_Witness ==
    /\ pc = "L212" /\ InitialFrontierEmpty
    /\ \E k \in Cols : << Src(k), Src(k) >> \in A

-----------------------------------------------------------------------------
\* C9 as stated: the final depth is the largest distance from a selected
\* source to a node it reaches, at most n - 1, and every write of
\* S_array[depth] is inside the n slots.
C9_DepthIsEccentricity ==
    /\ pc = "L191" => depth < n
    /\ (pc = "L212" /\ ValidInput) => (depth = Eccentricity /\ depth <= n - 1)

\* C9: the final depth is that distance, or 1 when the distance is 0; it is
\* at most max(1, n - 1), it is the length of the depth-history sequence, and
\* every write of S_array[depth] is inside the n slots.
C9_DepthBounded ==
    /\ pc = "L191" => depth < n
    /\ (pc = "L212" /\ ValidInput) =>
           /\ depth = Max(1, Eccentricity)
           /\ depth <= Max(1, n - 1)
           /\ Len(S_array) = depth

\* the forward phase ends at depth 3
C9_Witness ==
    pc = "L212" /\ ValidInput /\ depth = 3 /\ Eccentricity = 3

-----------------------------------------------------------------------------
BackwardLines ==
    { "L212", "L213", "L217", "L218", "L222", "L223", "L226", "L234", "L237",
      "L240", "L245", "L248", "L250" }

\* C10 as stated: once the backward iteration at index i has finished,
\* S_array[i] is no longer held.
C10_ReleasedWhenConsumed ==
    pc \in { "L234", "L237", "L240", "L245", "L248", "L250" } =>
        \A d \in (bi + 1) .. (depth - 1) : d \notin liveS

\* C10: the backward phase releases no depth-history matrix: all of
\* S_array[0..depth-1] stay held until LAGRAPH_FREE_ALL releases them in bulk,
\* at the end of the call or on a failure.
C10_HeldUntilFreeAll ==
    /\ pc \in BackwardLines => liveS = 0 .. (depth - 1)
    /\ pc = "returned" => liveS \cap (0 .. (depth - 1)) = {}

\* the backward loop has run twice and every level is still held
C10_Witness ==
    /\ pc = "L245" /\ depth = 3 /\ bi = 0
    /\ liveS = { 0, 1, 2 }

-----------------------------------------------------------------------------
\* the positions recorded at depth d (S_array[d] of the source)
RecordedAt(d) == MaskBool(S_array[d + 1])

\* paths(v,s) times the sum, over the edges v -> w with (w, s) recorded at
\* depth i, of dependency(w,s) / paths(w,s)
Credit(v, k, i) ==
    LET W == { w \in Nodes : << v, w >> \in A /\ << w, k >> \in RecordedAt(i) }
        share == [ w \in W |-> RMul(bc_update[<< w, k >>], << 1, paths[<< w, k >>] >>) ]
    IN  RMul(RInt(paths[<< v, k >>]), RSum(share, 0, n - 1))

\* the backward iteration at index bi, whose last call is that of line 240
BackwardStepFrame ==
    /\ pc \in { "L234", "L237" } => bc_update' = bc_update
    /\ pc = "L240" =>
           /\ DOMAIN bc_update' = AllPos
           /\ \A p \in AllPos :
                  bc_update'[p] = IF p \in RecordedAt(bi - 1)
                                  THEN RAdd(bc_update[p], Credit(p[1], p[2], bi))
                                  ELSE bc_update[p]

\* the entries of the sources themselves and of unreachable pairs stay 1.0
NeverRecordedStayOne ==
    pc \in { "L222", "L223", "L226", "L234", "L237", "L240", "L245", "L248", "L250" } =>
        \A p \in AllPos :
            (\A d \in 0 .. (depth - 1) : p \notin RecordedAt(d)) =>
                bc_update[p] = RInt(1)

\* C11: the backward iteration at depth index i changes the dependency matrix
\* only at the positions recorded at depth i-1, where entry (v, s) grows by
\* paths(v,s) times the sum over edges v -> w with (w, s) recorded at depth i
\* of dependency(w,s)/paths(w,s); every other entry, the sources' own and the
\* unreachable pairs among them, keeps its value (1.0 if never recorded).
C11_BackwardFrame ==
    /\ [][BackwardStepFrame]_vars
    /\ []NeverRecordedStayOne

\* the backward loop has finished, an entry has grown, and an edge v -> w
\* into a position recorded at depth d >= 1 leaves from a recorded position
\* that is not at depth d-1, whose entry has kept the value 1.0
C11_Witness ==
    /\ pc = "L245" /\ depth >= 2
    /\ \E p \in AllPos : bc_update[p] # RInt(1)
    /\ \E e \in A, k \in Cols, d \in 1 .. (depth - 1) :
           /\ << e[2], k >> \in RecordedAt(d)
           /\ << e[1], k >> \in RecordedAt(d)
           /\ bc_update[<< e[1], k >>] = RInt(1)

=============================================================================
